---- MODULE Spec2Model ----
(***************************************************************************)
(* A model of the openbench core: the model residency cache of the model  *)
(* execution service (ModelManager) behind its /v1 API, the evaluation    *)
(* orchestrator of the backend (EvaluationService) and the structural     *)
(* scorer (ValidationService).                                            *)
(***************************************************************************)
EXTENDS Integers, Sequences, FiniteSets, TLC

(***************************************************************************)
(* Bounds of the model and program constants.                              *)
(***************************************************************************)
\* Configured model ids of the execution service are 1..NumModels.
NumModels == 4
\* settings.max_loaded_models (default).
MaxLoadedModels == 2

\* Target model ids over all the batches submitted in one run of the model.
MaxTargets == 2
\* The values settings.max_concurrent_evaluations is configured with, small
\* so that the limiter binds.
ConcurrencyLimits == {1, 2}

\* Python's None where the model holds an id or a number.
None == 0
\* One more id stands for a model that is missing from the model configuration.
Configured == 1..NumModels
ModelIds == Configured \cup {NumModels + 1}

\* config.get("max_concurrent", 1): model 1 carries the key, the others do not.
MaxConcurrentOf(m) == IF m = 1 THEN 2 ELSE 1

VARIABLES
    loaded,     \* ModelManager._loaded_models: the keys of the OrderedDict, LRU first
    conc,       \* ModelManager._concurrent_requests
    last,       \* the last residency call: its arguments, result and the state it started from
    limit,      \* settings.max_concurrent_evaluations of this process
    modelIds,   \* per batch: len(execution.model_ids); 0 when the batch was not submitted
    found,      \* per batch: how many of its target ids are rows of the model store
    execution,  \* per batch: the Execution record
    opc,        \* per batch: where _execute_evaluation stands
    sem,        \* per batch: free permits of the semaphore its orchestration created
    tpc,        \* per task: where _evaluate_single_model stands
    cancelled,  \* per task: the batch deadline cancelled it
    cnt,        \* per task: the row count of the query it is suspended on, once the store answered
    result,     \* per task: the TestResult record
    outcome,    \* per task: how its provider call ended, "none" while it has not
    parsed_output,    \* the scorer's input: the parsed model response
    expected_output,  \* the scorer's input: the expected value of the test case
    config,     \* the scorer's input: evaluation_config with its defaults filled in
    scored,     \* what the scorer returned, NotScored before the call
    request,    \* the inference request the execution service is working on
    response,   \* the last answer of the execution service's API
    calls,      \* per concurrent request to the execution service: where its handler stands
    running_evaluations,  \* EvaluationService._running_evaluations: the registered execution ids
    orchestration         \* per execution id: its _execute_evaluation tasks

cacheVars == <<loaded, conc, last>>
evalVars == <<limit, modelIds, found, execution, opc, sem, tpc, cancelled, cnt, result, outcome>>
scoreVars == <<parsed_output, expected_output, config, scored>>
apiVars == <<request, response>>
callVars == <<calls>>
registryVars == <<running_evaluations, orchestration>>
runVars == <<calls, running_evaluations, orchestration>>
vars == <<loaded, conc, last, limit, modelIds, found, execution, opc, sem, tpc, cancelled, cnt, result, outcome,
          parsed_output, expected_output, config, scored, request, response,
          calls, running_evaluations, orchestration>>

\* No inference request is being worked on; no request was answered.
NoRequest == [m |-> None, pc |-> "none"]
NoResponse == [endpoint |-> "none", cred |-> "none", m |-> None, status |-> None, success |-> FALSE, seq |-> 0]

\* The requests the execution service works on at the same time.
MaxCalls == 2
CallIds == 1..MaxCalls

\* No handler is running for the request.
IdleCall == [op |-> "none", m |-> None, pc |-> "idle"]
NoCalls == [c \in CallIds |-> IdleCall]

\* The execution ids run_evaluation is called with, and how many times an
\* orchestration is created for one id.
NumExecutions == 2
MaxRuns == 2
ExecutionIds == 1..NumExecutions

\* No _execute_evaluation task exists for the id.
NoOrchestration == [tasks |-> 0, ended |-> 0, outcome |-> "none", created |-> 0, refused |-> FALSE]
NoOrchestrations == [e \in ExecutionIds |-> NoOrchestration]

(***************************************************************************)
(* Model residency cache.                                                  *)
(***************************************************************************)
Range(s) == {s[i] : i \in 1..Len(s)}

Remove(s, m) == SelectSeq(s, LAMBDA x : x # m)

\* A touch that leaves the order as it is.
MoveToEndForgotten(s, m) == s

\* OrderedDict.move_to_end(model_id)
MoveToEnd(s, m) == Append(Remove(s, m), m)

\* An unload that does not look at the active requests.
UnloadModelResultForced(ld, cc, m) ==
    IF m \notin Range(ld) THEN [ok |-> FALSE, loaded |-> ld]
    ELSE [ok |-> TRUE, loaded |-> SelectSeq(ld, LAMBDA x : x # m)]

\* unload_model: the resident list after the call and whether it succeeded.
UnloadModelResult(ld, cc, m) ==
    IF m \notin Range(ld) THEN [ok |-> FALSE, loaded |-> ld]
    ELSE IF cc[m] > 0 THEN [ok |-> FALSE, loaded |-> ld]
    ELSE [ok |-> TRUE, loaded |-> Remove(ld, m)]

\* The scan of _ensure_model_capacity: the first model, in OrderedDict order,
\* with no active request; None when every resident model is busy.
LruIdleModel(ld, cc) ==
    LET idle == {i \in 1..Len(ld) : cc[ld[i]] = 0}
    IN  IF idle = {} THEN None
        ELSE ld[CHOOSE i \in idle : \A j \in idle : i <= j]

RECURSIVE UnloadLoop(_, _, _)
UnloadLoop(ld, cc, n) ==
    IF n = 0 \/ ld = <<>> THEN ld
    ELSE LET lru == LruIdleModel(ld, cc)
         IN  IF lru # None
             THEN UnloadLoop(UnloadModelResult(ld, cc, lru).loaded, cc, n - 1)
             ELSE ld

\* A capacity check that pops the oldest entry whatever its counter.
EnsureModelCapacityPopOldest(ld, cc) ==
    IF Len(ld) < MaxLoadedModels THEN ld ELSE Tail(ld)

\* _ensure_model_capacity: the resident list it leaves; it returns nothing and
\* raises nothing, also when it could not unload any model.
EnsureModelCapacity(ld, cc) ==
    IF Len(ld) < MaxLoadedModels THEN ld
    ELSE UnloadLoop(ld, cc, Len(ld) - MaxLoadedModels + 1)

\* Outcomes of the Ollama calls of one load_model call.
FetchOutcomes == {"found", "pulled", "pull_failed", "error"}
SmokeOutcomes == {"ok", "error"}

Call(op, m, ok) == [op |-> op, m |-> m, ok |-> ok, pre |-> loaded, preConc |-> conc]

\* load_model, the whole call.
LoadModel(m, fetch, smoke) ==
    /\ conc' = conc
    /\ UNCHANGED <<evalVars, scoreVars>>
    /\ IF m \notin Configured
       THEN /\ loaded' = loaded
            /\ last' = Call("load", m, FALSE)
       ELSE IF m \in Range(loaded)
       THEN /\ loaded' = MoveToEnd(loaded, m)
            /\ last' = Call("load", m, TRUE)
       ELSE LET ld == EnsureModelCapacity(loaded, conc)
            IN  IF fetch \in {"pull_failed", "error"} \/ smoke = "error"
                THEN /\ loaded' = ld
                     /\ last' = Call("load", m, FALSE)
                ELSE /\ loaded' = Append(ld, m)
                     /\ last' = Call("load", m, TRUE)

\* unload_model
UnloadModel(m) ==
    LET r == UnloadModelResult(loaded, conc, m)
    IN  /\ loaded' = r.loaded
        /\ conc' = conc
        /\ last' = Call("unload", m, r.ok)
        /\ UNCHANGED <<evalVars, scoreVars, runVars>>

\* A start_inference that admits a resident model whatever its counter.
StartInferenceUnlimited(m) ==
    /\ UNCHANGED <<evalVars, scoreVars>>
    /\ IF m \notin Range(loaded)
       THEN /\ UNCHANGED <<loaded, conc>>
            /\ last' = Call("start", m, FALSE)
       ELSE /\ conc' = [conc EXCEPT ![m] = @ + 1]
            /\ loaded' = MoveToEnd(loaded, m)
            /\ last' = Call("start", m, TRUE)

\* A start_inference that counts a request for a model that is not resident.
StartInferenceNotResident(m) ==
    /\ UNCHANGED <<evalVars, scoreVars>>
    /\ IF conc[m] >= MaxConcurrentOf(m)
       THEN /\ UNCHANGED <<loaded, conc>>
            /\ last' = Call("start", m, FALSE)
       ELSE /\ conc' = [conc EXCEPT ![m] = @ + 1]
            /\ loaded' = IF m \in Range(loaded) THEN MoveToEnd(loaded, m) ELSE loaded
            /\ last' = Call("start", m, TRUE)

\* start_inference
StartInference(m) ==
    /\ UNCHANGED <<evalVars, scoreVars>>
    /\ IF m \notin Range(loaded) \/ conc[m] >= MaxConcurrentOf(m)
       THEN /\ UNCHANGED <<loaded, conc>>
            /\ last' = Call("start", m, FALSE)
       ELSE /\ conc' = [conc EXCEPT ![m] = @ + 1]
            /\ loaded' = MoveToEnd(loaded, m)
            /\ last' = Call("start", m, TRUE)

\* An end_inference that decrements without looking at the counter.
EndInferenceUnfloored(m) ==
    /\ conc' = [conc EXCEPT ![m] = @ - 1]
    /\ loaded' = loaded
    /\ last' = Call("end", m, TRUE)
    /\ UNCHANGED <<evalVars, scoreVars>>

\* end_inference
EndInference(m) ==
    /\ conc' = [conc EXCEPT ![m] = IF @ > 0 THEN @ - 1 ELSE @]
    /\ loaded' = loaded
    /\ last' = Call("end", m, TRUE)
    /\ UNCHANGED <<evalVars, scoreVars>>

\* defaultdict(int): no request counted for any model.
NoRequests == [m \in ModelIds |-> 0]

\* No residency call was made yet.
NoCall == [op |-> "none", m |-> None, ok |-> TRUE, pre |-> <<>>, preConc |-> NoRequests]

\* The Ollama calls one load_model call makes: none when it returns before the
\* try block, no smoke test when show or pull failed.
LoadOutcomes(m) ==
    IF m \in Configured /\ m \notin Range(loaded)
    THEN {<<f, s>> : f \in FetchOutcomes \ {"pull_failed", "error"}, s \in SmokeOutcomes}
             \cup {<<f, "none">> : f \in {"pull_failed", "error"}}
    ELSE {<<"none", "none">>}

CacheNext ==
    \/ \E m \in ModelIds : \E o \in LoadOutcomes(m) : LoadModel(m, o[1], o[2]) /\ UNCHANGED <<apiVars, runVars>>
    \/ \E m \in ModelIds : UnloadModel(m) /\ UNCHANGED <<apiVars, runVars>>
    \/ \E m \in ModelIds : StartInference(m) /\ UNCHANGED <<apiVars, runVars>>
    \/ \E m \in ModelIds : EndInference(m) /\ UNCHANGED <<apiVars, runVars>>

(***************************************************************************)
(* API of the model execution service.                                     *)
(***************************************************************************)
\* What a request carries in its Authorization header: nothing, a bearer
\* token that is not settings.api_key, or settings.api_key.
Credentials == {"none", "wrong", "right"}
Endpoints == {"models", "load", "unload", "inference", "status"}

\* The status HTTPBearer() raises with when the header is missing
\* (auto_error): 403 or 401, by the release of FastAPI.
BearerRejections == {401, 403}

\* security = HTTPBearer(): the status it raises with, None when it hands the
\* credentials on.
HTTPBearerStatus(cred, st) == IF cred = "none" THEN st ELSE None

\* verify_api_key: the status of the HTTPException, None when the key is valid.
VerifyApiKey(cred, st) ==
    IF HTTPBearerStatus(cred, st) # None THEN HTTPBearerStatus(cred, st)
    ELSE IF cred = "none" THEN 401
    ELSE IF cred # "right" THEN 401
    ELSE None

\* The answer to a request: the status code, and success and model_id of the body.
Answer(endpoint, cred, m, status, success) ==
    [endpoint |-> endpoint, cred |-> cred, m |-> m, status |-> status, success |-> success,
     seq |-> 1 - response.seq]

\* Depends(verify_api_key) raises before the handler of the endpoint is called.
RejectRequest(endpoint, cred, st) ==
    /\ VerifyApiKey(cred, st) # None
    /\ response' = Answer(endpoint, cred, None, VerifyApiKey(cred, st), FALSE)
    /\ UNCHANGED <<request, cacheVars, evalVars, scoreVars, runVars>>

\* list_models and get_status read the cache.
ReadOnlyRoute(endpoint, cred, st) ==
    /\ endpoint \in {"models", "status"}
    /\ VerifyApiKey(cred, st) = None
    /\ response' = Answer(endpoint, cred, None, 200, TRUE)
    /\ UNCHANGED <<request, cacheVars, evalVars, scoreVars, runVars>>

\* A load endpoint that answers 200 whatever load_model returned.
LoadStatusAlwaysOk(success) == 200

\* routes.load_model and routes.unload_model: ModelLoadResponse on success,
\* HTTPException 400 otherwise, re-raised as it is.
LoadStatus(success) == IF success THEN 200 ELSE 400

RouteLoadModel(cred, st, m, fetch, smoke) ==
    /\ VerifyApiKey(cred, st) = None
    /\ LoadModel(m, fetch, smoke)
    /\ response' = Answer("load", cred, m, LoadStatus(last'.ok), last'.ok)
    /\ UNCHANGED <<request, runVars>>

RouteUnloadModel(cred, st, m) ==
    /\ VerifyApiKey(cred, st) = None
    /\ UnloadModel(m)
    /\ response' = Answer("unload", cred, m, LoadStatus(last'.ok), last'.ok)
    /\ UNCHANGED <<request, runVars>>

\* perform_inference up to the end of the load generate makes for a model
\* that is not resident; a failed load is answered 200 with success false.
PerformInference(cred, st, m, fetch, smoke) ==
    /\ VerifyApiKey(cred, st) = None
    /\ request.pc = "none"
    /\ UNCHANGED runVars
    /\ IF m \in Range(loaded)
       THEN /\ UNCHANGED <<cacheVars, evalVars, scoreVars, response>>
            /\ request' = [m |-> m, pc |-> "start"]
       ELSE /\ LoadModel(m, fetch, smoke)
            /\ IF last'.ok
               THEN request' = [m |-> m, pc |-> "start"] /\ UNCHANGED response
               ELSE request' = NoRequest /\ response' = Answer("inference", cred, m, 200, FALSE)

\* generate goes on with start_inference.
InferenceStarts ==
    /\ request.pc = "start"
    /\ UNCHANGED runVars
    /\ StartInference(request.m)
    /\ IF last'.ok
       THEN request' = [request EXCEPT !.pc = "generate"] /\ UNCHANGED response
       ELSE request' = NoRequest /\ response' = Answer("inference", "right", request.m, 200, FALSE)

\* The Ollama call of generate ends, well or not; the finally block calls
\* end_inference.
InferenceEnds(success) ==
    /\ request.pc = "generate"
    /\ UNCHANGED runVars
    /\ EndInference(request.m)
    /\ request' = NoRequest
    /\ response' = Answer("inference", "right", request.m, 200, success)

\* The release of FastAPI shows only on a request without credentials.
BearerOutcomes(cred) == IF cred = "none" THEN BearerRejections ELSE {None}

ApiNext ==
    \/ \E e \in Endpoints, c \in Credentials : \E st \in BearerOutcomes(c) : RejectRequest(e, c, st)
    \/ \E e \in Endpoints, c \in Credentials : \E st \in BearerOutcomes(c) : ReadOnlyRoute(e, c, st)
    \/ \E c \in Credentials, m \in ModelIds : \E st \in BearerOutcomes(c), o \in LoadOutcomes(m) :
          RouteLoadModel(c, st, m, o[1], o[2])
    \/ \E c \in Credentials, m \in ModelIds : \E st \in BearerOutcomes(c) : RouteUnloadModel(c, st, m)
    \/ \E c \in Credentials, m \in ModelIds : \E st \in BearerOutcomes(c), o \in LoadOutcomes(m) :
          PerformInference(c, st, m, o[1], o[2])
    \/ InferenceStarts
    \/ \E ok \in BOOLEAN : InferenceEnds(ok)

(***************************************************************************)
(* Evaluation orchestrator.                                                *)
(***************************************************************************)
\* Batches in flight at a time: one more than the smallest limit, the fewest
\* whose tasks can together exceed it.
NumBatches == (CHOOSE l \in ConcurrencyLimits : \A k \in ConcurrencyLimits : l <= k) + 1
BatchIds == 1..NumBatches
TaskIds == 1..MaxTargets

\* accuracy_score in tenths: 10 is 1.0; 0 is a wrong answer and also what
\* evaluate_response returns when scoring raised inside its try block.
Scores == {0, 10}
Terminal == {"completed", "failed", "timeout"}

\* accuracy_score of a record that carries no score.
NoScore == None - 1

NoResult == [status |-> "none", error_type |-> "none", score |-> NoScore, latency |-> "null"]

\* The tasks _execute_evaluation creates: one per target id found in the model store.
Tasks(b) == 1..found[b]

\* A count that leaves out the execution_id filter of the select.
CountStatusAllExecutions(b, S) ==
    Cardinality({p \in BatchIds \X TaskIds : result[p[1]][p[2]].status \in S})

\* len(result.scalars().all()) of a select on this execution's TestResult rows by status.
CountStatus(b, S) == Cardinality({i \in TaskIds : result[b][i].status \in S})

AllTasksDone(b) == \A i \in Tasks(b) : tpc[b][i] = "done"

\* asyncio.Semaphore(settings.max_concurrent_evaluations), created by one
\* _execute_evaluation call for its own tasks.
NewSemaphore(b) == [sem EXCEPT ![b] = limit]

\* _execute_evaluation up to the wait: status running, one task per found model.
ExecuteEvaluation(b) ==
    /\ opc[b] = "created"
    /\ opc' = [opc EXCEPT ![b] = "gather"]
    /\ execution' = [execution EXCEPT ![b].status = "running"]
    /\ sem' = NewSemaphore(b)
    /\ tpc' = [tpc EXCEPT ![b] = [i \in TaskIds |-> IF i \in Tasks(b) THEN "acquire" ELSE "none"]]
    /\ UNCHANGED <<scoreVars, runVars, apiVars, outcome, limit, modelIds, found, cancelled, cnt, result, loaded, conc, last>>

\* The task enters "async with semaphore", adds its TestResult (status running),
\* commits and calls the provider. Tasks start, and waiters of an asyncio
\* semaphore are served, in creation order.
AcquireSlot(b, i) ==
    /\ tpc[b][i] = "acquire"
    /\ \A j \in Tasks(b) : j < i => tpc[b][j] # "acquire"
    /\ sem[b] > 0
    /\ sem' = [sem EXCEPT ![b] = @ - 1]
    /\ result' = [result EXCEPT ![b][i] = [NoResult EXCEPT !.status = "running"]]
    /\ tpc' = [tpc EXCEPT ![b][i] = "generate"]
    /\ UNCHANGED <<scoreVars, runVars, apiVars, outcome, limit, modelIds, found, execution, opc, cancelled, cnt, loaded, conc, last>>

\* The record a task writes for the outcome of its provider call, with the
\* latency the finally block leaves. A response whose content is None makes
\* evaluate_response raise before its try block (len(response)), which the task
\* handles like any other exception.
TerminalRecord(kind, score) ==
    IF kind = "ok"
    THEN [status |-> "completed", error_type |-> "none", score |-> score, latency |-> "set"]
    ELSE IF kind = "timeout"
    THEN [status |-> "timeout", error_type |-> "timeout", score |-> NoScore, latency |-> "set"]
    ELSE IF kind = "provider_error"
    THEN [status |-> "failed", error_type |-> "provider_error", score |-> NoScore, latency |-> "set"]
    ELSE [status |-> "failed", error_type |-> "unknown_error", score |-> NoScore, latency |-> "set"]

\* How a provider call ends: it returns a response with text, it returns a
\* response whose content is None (the dataclass takes what the API sent), the
\* per-task timeout cuts it off, it raises ProviderException, or it raises
\* anything else.
ProviderOutcomes == {"ok", "ok_no_content", "timeout", "provider_error", "error"}

\* The provider call returns, times out or raises; the task writes its terminal
\* record and is suspended on the commit and the first query of the recomputation.
ProviderReturns(b, i, kind, score) ==
    /\ tpc[b][i] = "generate"
    /\ result' = [result EXCEPT ![b][i] = TerminalRecord(kind, score)]
    /\ tpc' = [tpc EXCEPT ![b][i] = "q1"]
    /\ outcome' = [outcome EXCEPT ![b][i] = kind]
    /\ UNCHANGED <<scoreVars, runVars, apiVars, limit, modelIds, found, execution, opc, sem, cancelled, cnt, loaded, conc, last>>

\* The statuses counted by the three queries of _update_execution_progress.
QueryStatuses(pc) ==
    IF pc = "q1" THEN Terminal
    ELSE IF pc = "q2" THEN {"completed"}
    ELSE {"failed", "timeout"}

\* The store answers the query a task is suspended on.
DbExecute(b, i) ==
    /\ tpc[b][i] \in {"q1", "q2", "q3"}
    /\ cnt' = [cnt EXCEPT ![b][i] = CountStatus(b, QueryStatuses(tpc[b][i]))]
    /\ tpc' = [tpc EXCEPT ![b][i] =
                  IF @ = "q1" THEN "r1" ELSE IF @ = "q2" THEN "r2" ELSE "r3"]
    /\ UNCHANGED <<scoreVars, runVars, apiVars, outcome, limit, modelIds, found, execution, opc, sem, cancelled, result, loaded, conc, last>>

\* A task that returns from its last assignment without leaving the semaphore.
AssignCountKeepsSlot(b, i) ==
    /\ tpc[b][i] \in {"r1", "r2", "r3"}
    /\ execution' = [execution EXCEPT ![b] =
           IF tpc[b][i] = "r1" THEN [@ EXCEPT !.progress = cnt[b][i]]
           ELSE IF tpc[b][i] = "r2" THEN [@ EXCEPT !.successful_evaluations = cnt[b][i]]
           ELSE [@ EXCEPT !.failed_evaluations = cnt[b][i]]]
    /\ tpc' = [tpc EXCEPT ![b][i] =
                  IF @ = "r1" THEN "q2" ELSE IF @ = "r2" THEN "q3" ELSE "done"]
    /\ cnt' = [cnt EXCEPT ![b][i] = 0]
    /\ UNCHANGED <<scoreVars, runVars, apiVars, outcome, limit, modelIds, found, opc, sem, cancelled, result, loaded, conc, last>>

\* The task is resumed with the rows and assigns the count to the Execution.
\* After the third assignment it commits, returns and leaves the semaphore.
AssignCount(b, i) ==
    /\ tpc[b][i] \in {"r1", "r2", "r3"}
    /\ execution' = [execution EXCEPT ![b] =
           IF tpc[b][i] = "r1" THEN [@ EXCEPT !.progress = cnt[b][i]]
           ELSE IF tpc[b][i] = "r2" THEN [@ EXCEPT !.successful_evaluations = cnt[b][i]]
           ELSE [@ EXCEPT !.failed_evaluations = cnt[b][i]]]
    /\ tpc' = [tpc EXCEPT ![b][i] =
                  IF @ = "r1" THEN "q2" ELSE IF @ = "r2" THEN "q3" ELSE "done"]
    /\ sem' = [sem EXCEPT ![b] = IF tpc[b][i] = "r3" THEN @ + 1 ELSE @]
    /\ cnt' = [cnt EXCEPT ![b][i] = 0]
    /\ UNCHANGED <<scoreVars, runVars, apiVars, outcome, limit, modelIds, found, opc, cancelled, result, loaded, conc, last>>

\* Where CancelledError leaves a task. Waiting for the semaphore it ends; in
\* the provider call no except clause catches it and the finally block runs up
\* to the commit and the first query of the recomputation, the status still
\* running; in the finally block it leaves the block and the function.
PcAfterCancel(pc) == IF pc = "generate" THEN "q1" ELSE "done"

\* A deadline whose cancellation is recorded in the record of every task it
\* hits, also of a task that had written its terminal record.
DeadlineMarksRecords(b) ==
    LET hit == {i \in Tasks(b) : tpc[b][i] # "done"}
        holders == {i \in hit : tpc[b][i] \notin {"acquire", "generate"}}
    IN  /\ opc[b] = "gather"
        /\ hit # {}
        /\ opc' = [opc EXCEPT ![b] = "cancelling"]
        /\ cancelled' = [cancelled EXCEPT ![b] = [i \in TaskIds |-> i \in hit]]
        /\ tpc' = [tpc EXCEPT ![b] =
               [i \in TaskIds |-> IF i \in hit THEN PcAfterCancel(@[i]) ELSE @[i]]]
        /\ result' = [result EXCEPT ![b] =
               [i \in TaskIds |-> IF i \in hit /\ tpc[b][i] # "acquire"
                                  THEN TerminalRecord("timeout", NoScore) ELSE @[i]]]
        /\ cnt' = [cnt EXCEPT ![b] = [i \in TaskIds |-> IF i \in hit THEN 0 ELSE @[i]]]
        /\ sem' = [sem EXCEPT ![b] = @ + Cardinality(holders)]
        /\ UNCHANGED <<scoreVars, runVars, apiVars, outcome, limit, modelIds, found, execution, loaded, conc, last>>

\* test_run_timeout elapses while a task is not done: wait_for cancels the
\* gather, which cancels every task that is not done, and waits for them to
\* end. The event loop runs the cancelled tasks' handlers before any other
\* wake-up of the batch, so they are part of this step.
Deadline(b) ==
    LET hit == {i \in Tasks(b) : tpc[b][i] # "done"}
        holders == {i \in hit : tpc[b][i] \notin {"acquire", "generate"}}
    IN  /\ opc[b] = "gather"
        /\ hit # {}
        /\ opc' = [opc EXCEPT ![b] = "cancelling"]
        /\ cancelled' = [cancelled EXCEPT ![b] = [i \in TaskIds |-> i \in hit]]
        /\ tpc' = [tpc EXCEPT ![b] =
               [i \in TaskIds |-> IF i \in hit THEN PcAfterCancel(@[i]) ELSE @[i]]]
        /\ result' = [result EXCEPT ![b] =
               [i \in TaskIds |-> IF i \in hit /\ tpc[b][i] = "generate"
                                  THEN [@[i] EXCEPT !.latency = "set"] ELSE @[i]]]
        /\ cnt' = [cnt EXCEPT ![b] = [i \in TaskIds |-> IF i \in hit THEN 0 ELSE @[i]]]
        /\ sem' = [sem EXCEPT ![b] = @ + Cardinality(holders)]
        /\ UNCHANGED <<scoreVars, runVars, apiVars, outcome, limit, modelIds, found, execution, loaded, conc, last>>

\* Every task ended after the cancellation: wait_for raises TimeoutError and the
\* handler marks the execution failed, then calls _finalize_execution.
TimedOut(b) ==
    /\ opc[b] = "cancelling"
    /\ AllTasksDone(b)
    /\ execution' = [execution EXCEPT ![b].status = "failed",
                                      ![b].error_message = "Evaluation timed out"]
    /\ opc' = [opc EXCEPT ![b] = "finalize"]
    /\ UNCHANGED <<scoreVars, runVars, apiVars, outcome, limit, modelIds, found, sem, tpc, cancelled, cnt, result, loaded, conc, last>>

\* A gather that ends with the first task whose provider call failed, as when
\* the task let the exception out and the gather did not collect exceptions.
GatherReturnsOnFirstError(b) ==
    /\ opc[b] = "gather"
    /\ \/ AllTasksDone(b)
       \/ \E i \in Tasks(b) : outcome[b][i] \notin {"none", "ok"}
    /\ opc' = [opc EXCEPT ![b] = "finalize"]
    /\ UNCHANGED <<scoreVars, runVars, apiVars, outcome, limit, modelIds, found, execution, sem, tpc, cancelled, cnt, result, loaded, conc, last>>

\* The gather returns before the deadline; _finalize_execution is called.
GatherReturns(b) ==
    /\ opc[b] = "gather"
    /\ AllTasksDone(b)
    /\ opc' = [opc EXCEPT ![b] = "finalize"]
    /\ UNCHANGED <<scoreVars, runVars, apiVars, outcome, limit, modelIds, found, execution, sem, tpc, cancelled, cnt, result, loaded, conc, last>>

\* A finalization that sets a status only when every target was counted or
\* none succeeded.
FinalStatusOnlyWhenDecided(e) ==
    IF e.progress >= e.total_evaluations THEN "completed"
    ELSE IF e.successful_evaluations = 0 THEN "failed"
    ELSE e.status

\* The final status _finalize_execution sets.
FinalStatus(e) ==
    IF e.progress >= e.total_evaluations THEN "completed"
    ELSE IF e.successful_evaluations = 0 THEN "failed"
    ELSE "completed"

FinalMessage(e) ==
    IF e.progress < e.total_evaluations /\ e.successful_evaluations = 0
    THEN "All evaluations failed"
    ELSE e.error_message

\* avg_accuracy of an execution that has none: Python's None.
NoAverage == <<None, None>>

\* The rows of the finalization query that carry a score: status completed,
\* accuracy_score not None.
ScoredResults(b) ==
    {i \in TaskIds : result[b][i].status = "completed" /\ result[b][i].score # NoScore}

RECURSIVE SumScores(_, _)
SumScores(b, S) ==
    IF S = {} THEN 0
    ELSE LET i == CHOOSE x \in S : TRUE
         IN  result[b][i].score + SumScores(b, S \ {i})

\* sum(accuracies) / len(accuracies), kept as the pair <<sum, len>>; the field
\* is left as it is when no completed row carries a score.
AvgAccuracy(b) ==
    IF ScoredResults(b) = {} THEN execution[b].avg_accuracy
    ELSE <<SumScores(b, ScoredResults(b)), Cardinality(ScoredResults(b))>>

\* _finalize_execution
FinalizeExecution(b) ==
    /\ opc[b] = "finalize"
    /\ execution' = [execution EXCEPT ![b].status = FinalStatus(execution[b]),
                                      ![b].error_message = FinalMessage(execution[b]),
                                      ![b].avg_accuracy = AvgAccuracy(b)]
    /\ opc' = [opc EXCEPT ![b] = "done"]
    /\ UNCHANGED <<scoreVars, runVars, apiVars, outcome, limit, modelIds, found, sem, tpc, cancelled, cnt, result, loaded, conc, last>>

\* run_test_case: the Execution row as created, status pending.
NewExecution(n) ==
    [status |-> "pending", error_message |-> "none", progress |-> 0,
     total_evaluations |-> n, successful_evaluations |-> 0, failed_evaluations |-> 0,
     avg_accuracy |-> NoAverage]

(***************************************************************************)
(* Structural scorer (ValidationService).                                  *)
(***************************************************************************)
\* Parsed JSON values carry their Python type: type(actual) != type(expected)
\* tells int from float. A float is held in millionths (1500000 is 1.5); the
\* floats of the model are finite multiples of 0.5, which binary floating
\* point subtracts exactly.
IntVal(n) == [t |-> "int", v |-> n]
FloatVal(x) == [t |-> "float", v |-> x]
ListVal(s) == [t |-> "list", v |-> s]
DictVal(f) == [t |-> "dict", v |-> f]

\* Longest generated list, the keys of generated mappings, and the length of
\* the lists that bring a score next to the 0.95 threshold.
MaxLen == 2
Keys == {"a", "b"}
LongLen == 20

Atoms == {IntVal(1), IntVal(2), FloatVal(1000000), FloatVal(1500000)}
SeqsUpTo(S, n) == UNION {[1..k -> S] : k \in 0..n}
DictsOver(S) == UNION {[K -> S] : K \in SUBSET Keys}
AtomLists == {ListVal(q) : q \in SeqsUpTo(Atoms, MaxLen)}
FlatDicts == {DictVal(f) : f \in DictsOver(Atoms \ {IntVal(2)})}
ElemDicts == {DictVal(f) : f \in DictsOver({IntVal(1)})}
DictLists == {ListVal(q) : q \in SeqsUpTo(ElemDicts, MaxLen)}

\* Scenario A and Scenario D of the specification.
ScenarioA_expected ==
    DictVal([k \in Keys |-> IF k = "a" THEN FloatVal(1000000)
                            ELSE ListVal(<<IntVal(1), IntVal(2), IntVal(3)>>)])
ScenarioA_actual ==
    DictVal([k \in Keys |-> IF k = "a" THEN FloatVal(1000000)
                            ELSE ListVal(<<IntVal(3), IntVal(2), IntVal(1)>>)])
ScenarioD_expected == ListVal(<<IntVal(1), IntVal(2)>>)
ScenarioD_actual == ListVal(<<IntVal(1), IntVal(2), IntVal(3)>>)

\* {"a": [1, ..., 1]} with LongLen elements of which the first n are 2.
LongDict(n) == DictVal([k \in {"a"} |-> ListVal([i \in 1..LongLen |-> IntVal(IF i <= n THEN 2 ELSE 1)])])

Values ==
    Atoms \cup AtomLists \cup FlatDicts \cup DictLists
        \cup {ScenarioA_expected, ScenarioA_actual, ScenarioD_expected, ScenarioD_actual}
        \cup {LongDict(n) : n \in 0..2}

\* float_tolerance: 0, the default 1e-6, and 0.5, in millionths.
Tolerances == {0, 1, 500000}
Configs == [ignore_order : BOOLEAN, float_tolerance : Tolerances, ignore_extra_fields : BOOLEAN]

\* Scores are exact fractions, held as multiples of 1/One: One is 1.0. One is
\* divisible by every product of two container sizes of Values, so that the
\* divisions of the scorer leave no remainder.
RECURSIVE Fact(_)
Fact(n) == IF n = 0 THEN 1 ELSE n * Fact(n - 1)
One == Fact(MaxLen + 1) * Fact(MaxLen + 1) * LongLen

Abs(x) == IF x < 0 THEN 0 - x ELSE x

\* A float comparison that wants the difference below the tolerance.
CompareFloatsStrict(a, e, tol) == IF Abs(a - e) < tol THEN One ELSE 0

\* abs(actual - expected) <= float_tolerance
CompareFloats(a, e, tol) == IF Abs(a - e) <= tol THEN One ELSE 0

RECURSIVE CompareStructures(_, _, _)
RECURSIVE SumFields(_, _, _, _)
RECURSIVE BestMatch(_, _, _, _, _, _)
RECURSIVE GreedyScore(_, _, _, _, _)
RECURSIVE ZipScore(_, _, _, _)

\* The loop of _compare_dicts: matching_fields over the expected keys K; a key
\* missing from actual adds nothing.
SumFields(actual, expected, cfg, K) ==
    IF K = {} THEN 0
    ELSE LET k == CHOOSE x \in K : TRUE
         IN  (IF k \in DOMAIN actual.v
              THEN CompareStructures(actual.v[k], expected.v[k], cfg)
              ELSE 0) + SumFields(actual, expected, cfg, K \ {k})

\* A dict score that is matching_fields, undivided.
CompareDictsUndivided(actual, expected, cfg) ==
    IF ~cfg.ignore_extra_fields /\ DOMAIN actual.v # DOMAIN expected.v THEN 0
    ELSE IF DOMAIN expected.v = {} THEN One
    ELSE SumFields(actual, expected, cfg, DOMAIN expected.v)

\* A dict score over the expected keys that actual carries.
CompareDictsOverPresent(actual, expected, cfg) ==
    IF ~cfg.ignore_extra_fields /\ DOMAIN actual.v # DOMAIN expected.v THEN 0
    ELSE IF DOMAIN expected.v = {} THEN One
    ELSE IF DOMAIN expected.v \cap DOMAIN actual.v = {} THEN 0
    ELSE SumFields(actual, expected, cfg, DOMAIN expected.v)
             \div Cardinality(DOMAIN expected.v \cap DOMAIN actual.v)

\* _compare_dicts
CompareDicts(actual, expected, cfg) ==
    IF ~cfg.ignore_extra_fields /\ DOMAIN actual.v # DOMAIN expected.v THEN 0
    ELSE IF DOMAIN expected.v = {} THEN One
    ELSE SumFields(actual, expected, cfg, DOMAIN expected.v)
             \div Cardinality(DOMAIN expected.v)

\* The inner loop of _compare_lists from index i on: best is <<best_score,
\* best_index>>, index 0 standing for -1; only a strictly higher score
\* replaces it.
BestMatch(actual, item, cfg, used, i, best) ==
    IF i > Len(actual.v) THEN best
    ELSE IF i \in used THEN BestMatch(actual, item, cfg, used, i + 1, best)
    ELSE LET score == CompareStructures(actual.v[i], item, cfg)
         IN  BestMatch(actual, item, cfg, used, i + 1,
                       IF score > best[1] THEN <<score, i>> ELSE best)

\* The outer loop of _compare_lists with ignore_order, from expected item k on:
\* total_score.
GreedyScore(actual, expected, cfg, k, used) ==
    IF k > Len(expected.v) THEN 0
    ELSE LET best == BestMatch(actual, expected.v[k], cfg, used, 1, <<0, 0>>)
         IN  best[1] + GreedyScore(actual, expected, cfg, k + 1,
                                   IF best[2] > 0 THEN used \cup {best[2]} ELSE used)

\* The loop over zip(actual, expected) from position k on: total_score.
ZipScore(actual, expected, cfg, k) ==
    IF k > Len(expected.v) \/ k > Len(actual.v) THEN 0
    ELSE CompareStructures(actual.v[k], expected.v[k], cfg)
             + ZipScore(actual, expected, cfg, k + 1)

TotalScore(actual, expected, cfg) ==
    IF cfg.ignore_order THEN GreedyScore(actual, expected, cfg, 1, {})
    ELSE ZipScore(actual, expected, cfg, 1)

\* A list score that gives credit for the common prefix of lists of different length.
CompareListsPartialCredit(actual, expected, cfg) ==
    IF Len(expected.v) = 0 THEN One
    ELSE ZipScore(actual, expected, cfg, 1) \div Len(expected.v)

\* _compare_lists
CompareLists(actual, expected, cfg) ==
    IF Len(actual.v) # Len(expected.v) THEN 0
    ELSE IF Len(expected.v) = 0 THEN One
    ELSE TotalScore(actual, expected, cfg) \div Len(expected.v)

\* _compare_structures
CompareStructures(actual, expected, cfg) ==
    IF actual.t # expected.t THEN 0
    ELSE IF expected.t = "dict" THEN CompareDicts(actual, expected, cfg)
    ELSE IF expected.t = "list" THEN CompareLists(actual, expected, cfg)
    ELSE IF expected.t = "float" THEN CompareFloats(actual.v, expected.v, cfg.float_tolerance)
    ELSE IF actual.v = expected.v THEN One ELSE 0

\* str() of a parsed value, as Python prints it; the floats of the model have
\* one decimal digit, 0 or 5. strip() and lower() change none of these strings.
RECURSIVE PyStr(_)
RECURSIVE JoinItems(_, _)
RECURSIVE JoinFields(_, _)
JoinItems(q, i) ==
    IF i > Len(q) THEN ""
    ELSE (IF i > 1 THEN ", " ELSE "") \o PyStr(q[i]) \o JoinItems(q, i + 1)
JoinFields(f, K) ==
    IF K = {} THEN ""
    ELSE LET k == CHOOSE x \in K : \A y \in K : x = y \/ (x = "a" /\ y # "a")
         IN  "'" \o k \o "': " \o PyStr(f[k])
                 \o (IF K = {k} THEN "" ELSE ", " \o JoinFields(f, K \ {k}))
PyStr(x) ==
    IF x.t = "int" THEN ToString(x.v)
    ELSE IF x.t = "float"
         THEN ToString(x.v \div 1000000) \o "." \o (IF x.v % 1000000 = 0 THEN "0" ELSE "5")
    ELSE IF x.t = "list" THEN "[" \o JoinItems(x.v, 1) \o "]"
    ELSE "{" \o JoinFields(x.v, DOMAIN x.v) \o "}"

\* Python's == on parsed values: 1 == 1.0 holds; lists and dicts compare by
\* their elements.
RECURSIVE PyEquals(_, _)
PyEquals(x, y) ==
    IF x.t \in {"int", "float"} /\ y.t \in {"int", "float"}
    THEN (IF x.t = "int" THEN x.v * 1000000 ELSE x.v) = (IF y.t = "int" THEN y.v * 1000000 ELSE y.v)
    ELSE IF x.t # y.t THEN FALSE
    ELSE IF x.t = "list"
         THEN Len(x.v) = Len(y.v) /\ \A i \in 1..Len(x.v) : PyEquals(x.v[i], y.v[i])
    ELSE DOMAIN x.v = DOMAIN y.v /\ \A k \in DOMAIN x.v : PyEquals(x.v[k], y.v[k])

\* What the scorer returns: accuracy_score and is_correct, and which function
\* was called.
NotScored == [op |-> "none", score |-> 0, is_correct |-> FALSE]

\* _evaluate_exact_match; expected_output is a dict (TestCaseCreate).
EvaluateExactMatch(parsed, exp) ==
    LET is_correct ==
            IF parsed.t # "dict"
            THEN PyStr(parsed) = PyStr(IF "value" \in DOMAIN exp.v THEN exp.v["value"] ELSE exp)
            ELSE PyEquals(parsed, exp)
    IN  [op |-> "exact_match", score |-> IF is_correct THEN One ELSE 0, is_correct |-> is_correct]

\* A threshold of one half.
IsCorrectAboveHalf(score) == 2 * score >= One

\* score >= 0.95
IsCorrect(score) == 20 * score >= 19 * One

\* _evaluate_structured_match
EvaluateStructuredMatch(parsed, exp, cfg) ==
    IF parsed.t # "dict" \/ exp.t # "dict" THEN EvaluateExactMatch(parsed, exp)
    ELSE LET score == CompareStructures(parsed, exp, cfg)
         IN  [op |-> "structured_match", score |-> score, is_correct |-> IsCorrect(score)]

\* A call of _compare_structures on the two values.
CompareCall ==
    /\ scored = NotScored
    /\ scored' = [op |-> "compare", score |-> CompareStructures(parsed_output, expected_output, config),
                  is_correct |-> FALSE]
    /\ UNCHANGED <<parsed_output, expected_output, config, cacheVars, evalVars, apiVars, runVars>>

\* evaluate_response with evaluation_type structured_match on a parsed
\* response; the expected output of a test case is a dict.
StructuredMatchCall ==
    /\ scored = NotScored
    /\ expected_output.t = "dict"
    /\ scored' = EvaluateStructuredMatch(parsed_output, expected_output, config)
    /\ UNCHANGED <<parsed_output, expected_output, config, cacheVars, evalVars, apiVars, runVars>>

\* A fresh ModelManager; no batch was submitted.
CacheInit ==
    /\ loaded = <<>>
    /\ conc = NoRequests
    /\ last = NoCall
    /\ limit \in ConcurrencyLimits
    /\ modelIds = [b \in BatchIds |-> 0]
    /\ found = [b \in BatchIds |-> 0]
    /\ execution = [b \in BatchIds |-> NewExecution(0)]
    /\ opc = [b \in BatchIds |-> "none"]
    /\ sem = [b \in BatchIds |-> 0]
    /\ tpc = [b \in BatchIds |-> [i \in TaskIds |-> "none"]]
    /\ cancelled = [b \in BatchIds |-> [i \in TaskIds |-> FALSE]]
    /\ cnt = [b \in BatchIds |-> [i \in TaskIds |-> 0]]
    /\ result = [b \in BatchIds |-> [i \in TaskIds |-> NoResult]]
    /\ outcome = [b \in BatchIds |-> [i \in TaskIds |-> "none"]]
    /\ parsed_output = IntVal(1)
    /\ expected_output = IntVal(1)
    /\ config = [ignore_order |-> TRUE, float_tolerance |-> 1, ignore_extra_fields |-> TRUE]
    /\ scored = NotScored
    /\ request = NoRequest
    /\ response = NoResponse
    /\ calls = NoCalls
    /\ running_evaluations = {}
    /\ orchestration = NoOrchestrations

RECURSIVE SumTo(_, _)
SumTo(f, n) == IF n = 0 THEN 0 ELSE f[n] + SumTo(f, n - 1)

\* Batches submitted through run_test_case, at least one target id each and
\* at most MaxTargets ids in all; run_evaluation created their orchestrations.
EvalInit ==
    /\ loaded = <<>>
    /\ conc = NoRequests
    /\ last = NoCall
    /\ limit \in ConcurrencyLimits
    /\ modelIds \in [BatchIds -> 0..MaxTargets]
    /\ modelIds[1] >= 1
    /\ \A b \in BatchIds : b > 1 => modelIds[b] <= modelIds[b - 1]
    /\ SumTo(modelIds, NumBatches) <= MaxTargets
    /\ found \in [BatchIds -> 0..MaxTargets]
    /\ \A b \in BatchIds : found[b] <= modelIds[b]
    /\ execution = [b \in BatchIds |-> NewExecution(modelIds[b])]
    /\ opc = [b \in BatchIds |-> IF modelIds[b] > 0 THEN "created" ELSE "none"]
    /\ sem = [b \in BatchIds |-> 0]
    /\ tpc = [b \in BatchIds |-> [i \in TaskIds |-> "none"]]
    /\ cancelled = [b \in BatchIds |-> [i \in TaskIds |-> FALSE]]
    /\ cnt = [b \in BatchIds |-> [i \in TaskIds |-> 0]]
    /\ result = [b \in BatchIds |-> [i \in TaskIds |-> NoResult]]
    /\ outcome = [b \in BatchIds |-> [i \in TaskIds |-> "none"]]
    /\ parsed_output = IntVal(1)
    /\ expected_output = IntVal(1)
    /\ config = [ignore_order |-> TRUE, float_tolerance |-> 1, ignore_extra_fields |-> TRUE]
    /\ scored = NotScored
    /\ request = NoRequest
    /\ response = NoResponse
    /\ calls = NoCalls
    /\ running_evaluations = {}
    /\ orchestration = NoOrchestrations

EvalNext ==
    \/ \E b \in BatchIds : ExecuteEvaluation(b)
    \/ \E b \in BatchIds, i \in TaskIds : AcquireSlot(b, i)
    \/ \E b \in BatchIds, i \in TaskIds, k \in ProviderOutcomes, s \in Scores :
          ProviderReturns(b, i, k, s)
    \/ \E b \in BatchIds, i \in TaskIds : DbExecute(b, i)
    \/ \E b \in BatchIds, i \in TaskIds : AssignCount(b, i)
    \/ \E b \in BatchIds : Deadline(b)
    \/ \E b \in BatchIds : TimedOut(b)
    \/ \E b \in BatchIds : GatherReturns(b)
    \/ \E b \in BatchIds : FinalizeExecution(b)

(***************************************************************************)
(* Specifications.                                                         *)
(***************************************************************************)
\* The residency calls made one after the other, each running to its end.
CacheSpec == CacheInit /\ [][CacheNext]_vars

\* Batches run by the orchestrator, their tasks interleaving at every await.
EvalSpec == EvalInit /\ [][EvalNext]_vars

\* The scorer called once on each pair of values under each configuration.
ScoreInit ==
    /\ parsed_output \in Values
    /\ expected_output \in Values
    /\ config \in Configs
    /\ scored = NotScored
    /\ request = NoRequest
    /\ response = NoResponse
    /\ calls = NoCalls
    /\ running_evaluations = {}
    /\ orchestration = NoOrchestrations
    /\ loaded = <<>>
    /\ conc = NoRequests
    /\ last = NoCall
    /\ limit = 1
    /\ modelIds = [b \in BatchIds |-> 0]
    /\ found = [b \in BatchIds |-> 0]
    /\ execution = [b \in BatchIds |-> NewExecution(0)]
    /\ opc = [b \in BatchIds |-> "none"]
    /\ sem = [b \in BatchIds |-> 0]
    /\ tpc = [b \in BatchIds |-> [i \in TaskIds |-> "none"]]
    /\ cancelled = [b \in BatchIds |-> [i \in TaskIds |-> FALSE]]
    /\ cnt = [b \in BatchIds |-> [i \in TaskIds |-> 0]]
    /\ result = [b \in BatchIds |-> [i \in TaskIds |-> NoResult]]
    /\ outcome = [b \in BatchIds |-> [i \in TaskIds |-> "none"]]

ScoreNext ==
    \/ CompareCall
    \/ StructuredMatchCall

ScoreSpec == ScoreInit /\ [][ScoreNext]_vars

\* The execution service is up with an empty cache.
ApiInit ==
    /\ loaded = <<>>
    /\ conc = NoRequests
    /\ last = NoCall
    /\ request = NoRequest
    /\ response = NoResponse
    /\ calls = NoCalls
    /\ running_evaluations = {}
    /\ orchestration = NoOrchestrations
    /\ parsed_output = IntVal(1)
    /\ expected_output = IntVal(1)
    /\ config = [ignore_order |-> TRUE, float_tolerance |-> 1, ignore_extra_fields |-> TRUE]
    /\ scored = NotScored
    /\ limit = 1
    /\ modelIds = [b \in BatchIds |-> 0]
    /\ found = [b \in BatchIds |-> 0]
    /\ execution = [b \in BatchIds |-> NewExecution(0)]
    /\ opc = [b \in BatchIds |-> "none"]
    /\ sem = [b \in BatchIds |-> 0]
    /\ tpc = [b \in BatchIds |-> [i \in TaskIds |-> "none"]]
    /\ cancelled = [b \in BatchIds |-> [i \in TaskIds |-> FALSE]]
    /\ cnt = [b \in BatchIds |-> [i \in TaskIds |-> 0]]
    /\ result = [b \in BatchIds |-> [i \in TaskIds |-> NoResult]]
    /\ outcome = [b \in BatchIds |-> [i \in TaskIds |-> "none"]]

ApiSpec == ApiInit /\ [][ApiNext]_vars

\* The same, on an event loop that runs whatever is ready: a provider call
\* returns, raises or is cut off by evaluation_timeout, the store answers, and a
\* coroutine that can be resumed is resumed.
EvalFairSpec == EvalInit /\ [][EvalNext]_vars /\ WF_vars(EvalNext)
(***************************************************************************)
(* The execution service under concurrent requests: load_model and         *)
(* generate are coroutines on one event loop and give way to each other    *)
(* where they wait for Ollama. ModelManager holds no lock.                 *)
(***************************************************************************)
\* How the Ollama call of generate ends: a response, OllamaTimeoutError,
\* OllamaModelNotFoundError or any other exception.
GenerateOutcomes == {"ok", "timeout", "not_found", "error"}

\* How the previous request of a handler left it.
Returned(how) == [op |-> "none", m |-> None, pc |-> how]
IsIdle(c) == calls[c].op = "none"

\* self._loaded_models[model_id] = {...}: a new key goes to the end, a key
\* that is there keeps its place.
InsertModel(ld, m) == IF m \in Range(ld) THEN ld ELSE Append(ld, m)

\* load_model up to its first wait: the configuration check, the residency
\* check and _ensure_model_capacity, which runs to its end without waiting.
\* The handler then waits for show_model.
LoadBegins(c, op, m) ==
    IF m \notin Configured
    THEN /\ calls' = [calls EXCEPT ![c] = Returned("load_failed")]
         /\ UNCHANGED <<loaded, conc>>
    ELSE /\ loaded' = EnsureModelCapacity(loaded, conc)
         /\ conc' = conc
         /\ calls' = [calls EXCEPT ![c] = [op |-> op, m |-> m, pc |-> "fetch"]]

\* start_inference as generate calls it, and where generate goes from there:
\* on to the Ollama call, or back with "maximum concurrent request limit".
\* ld is the resident list the call finds.
InferenceBegins(c, m, ld) ==
    IF m \notin Range(ld) \/ conc[m] >= MaxConcurrentOf(m)
    THEN /\ loaded' = ld
         /\ conc' = conc
         /\ calls' = [calls EXCEPT ![c] = Returned("refused")]
    ELSE /\ loaded' = MoveToEnd(ld, m)
         /\ conc' = [conc EXCEPT ![m] = @ + 1]
         /\ calls' = [calls EXCEPT ![c] = [op |-> "inference", m |-> m, pc |-> "generate"]]

\* POST /models/{model_id}/load
CallLoad(c, m) ==
    /\ IsIdle(c)
    /\ IF m \in Range(loaded)
       THEN /\ loaded' = MoveToEnd(loaded, m)
            /\ conc' = conc
            /\ calls' = [calls EXCEPT ![c] = Returned("loaded")]
       ELSE LoadBegins(c, "load", m)
    /\ UNCHANGED <<last, evalVars, scoreVars, apiVars, registryVars>>

\* POST /inference: generate loads a model that is not resident and calls
\* start_inference for one that is.
CallInference(c, m) ==
    /\ IsIdle(c)
    /\ IF m \in Range(loaded)
       THEN InferenceBegins(c, m, loaded)
       ELSE LoadBegins(c, "inference", m)
    /\ UNCHANGED <<last, evalVars, scoreVars, apiVars, registryVars>>

\* show_model and, for a model Ollama does not have, pull_model return or
\* raise; the handler goes on to the smoke test or returns the failure.
FetchReturns(c, fetch) ==
    /\ calls[c].pc = "fetch"
    /\ calls' = [calls EXCEPT ![c] =
           IF fetch \in {"pull_failed", "error"} THEN Returned("load_failed")
           ELSE [@ EXCEPT !.pc = "smoke"]]
    /\ UNCHANGED <<cacheVars, evalVars, scoreVars, apiVars, registryVars>>

\* The smoke-test generation returns or raises. On success load_model inserts
\* the model and returns; generate goes on to start_inference without waiting.
SmokeReturns(c, smoke) ==
    /\ calls[c].pc = "smoke"
    /\ IF smoke = "error"
       THEN /\ calls' = [calls EXCEPT ![c] = Returned("load_failed")]
            /\ UNCHANGED <<loaded, conc>>
       ELSE IF calls[c].op = "load"
       THEN /\ loaded' = InsertModel(loaded, calls[c].m)
            /\ conc' = conc
            /\ calls' = [calls EXCEPT ![c] = Returned("loaded")]
       ELSE InferenceBegins(c, calls[c].m, InsertModel(loaded, calls[c].m))
    /\ UNCHANGED <<last, evalVars, scoreVars, apiVars, registryVars>>

\* A generate whose finally block is reached only when the Ollama call
\* returned a response.
OllamaReturnsEndsOnSuccess(c, how) ==
    /\ calls[c].pc = "generate"
    /\ conc' = IF how = "ok" THEN [conc EXCEPT ![calls[c].m] = IF @ > 0 THEN @ - 1 ELSE @]
               ELSE conc
    /\ calls' = [calls EXCEPT ![c] = Returned(how)]
    /\ UNCHANGED <<loaded, last, evalVars, scoreVars, apiVars, registryVars>>

\* The Ollama call of generate returns or raises; the finally block calls
\* end_inference on every path and generate returns its response.
OllamaReturns(c, how) ==
    /\ calls[c].pc = "generate"
    /\ conc' = [conc EXCEPT ![calls[c].m] = IF @ > 0 THEN @ - 1 ELSE @]
    /\ calls' = [calls EXCEPT ![c] = Returned(how)]
    /\ UNCHANGED <<loaded, last, evalVars, scoreVars, apiVars, registryVars>>

\* POST /models/{model_id}/unload: unload_model does not wait.
CallUnload(m) ==
    /\ loaded' = UnloadModelResult(loaded, conc, m).loaded
    /\ UNCHANGED <<conc, last, evalVars, scoreVars, apiVars, runVars>>

ConcInit ==
    /\ loaded = <<>>
    /\ conc = NoRequests
    /\ last = NoCall
    /\ limit = 1
    /\ modelIds = [b \in BatchIds |-> 0]
    /\ found = [b \in BatchIds |-> 0]
    /\ execution = [b \in BatchIds |-> NewExecution(0)]
    /\ opc = [b \in BatchIds |-> "none"]
    /\ sem = [b \in BatchIds |-> 0]
    /\ tpc = [b \in BatchIds |-> [i \in TaskIds |-> "none"]]
    /\ cancelled = [b \in BatchIds |-> [i \in TaskIds |-> FALSE]]
    /\ cnt = [b \in BatchIds |-> [i \in TaskIds |-> 0]]
    /\ result = [b \in BatchIds |-> [i \in TaskIds |-> NoResult]]
    /\ outcome = [b \in BatchIds |-> [i \in TaskIds |-> "none"]]
    /\ parsed_output = IntVal(1)
    /\ expected_output = IntVal(1)
    /\ config = [ignore_order |-> TRUE, float_tolerance |-> 1, ignore_extra_fields |-> TRUE]
    /\ scored = NotScored
    /\ request = NoRequest
    /\ response = NoResponse
    /\ calls = NoCalls
    /\ running_evaluations = {}
    /\ orchestration = NoOrchestrations

ConcNext ==
    \/ \E c \in CallIds, m \in ModelIds : CallLoad(c, m)
    \/ \E c \in CallIds, m \in ModelIds : CallInference(c, m)
    \/ \E c \in CallIds, f \in FetchOutcomes : FetchReturns(c, f)
    \/ \E c \in CallIds, s \in SmokeOutcomes : SmokeReturns(c, s)
    \/ \E c \in CallIds, how \in GenerateOutcomes : OllamaReturns(c, how)
    \/ \E m \in ModelIds : CallUnload(m)

ConcSpec == ConcInit /\ [][ConcNext]_vars

(***************************************************************************)
(* The registry of running evaluations of one EvaluationService.           *)
(***************************************************************************)
\* How an _execute_evaluation task ends: it returns (its except clause caught
\* what was raised), an exception leaves it (get_db before the try block,
\* db.close in the finally block), or it is cancelled.
TaskOutcomes == {"returned", "raised", "cancelled"}

\* A run_evaluation that creates a task whether the id is registered or not.
RunEvaluationUnguarded(e) ==
    /\ orchestration[e].created < MaxRuns
    /\ running_evaluations' = running_evaluations \cup {e}
    /\ orchestration' = [orchestration EXCEPT ![e] =
           [@ EXCEPT !.tasks = @ + 1, !.created = @ + 1, !.refused = FALSE]]
    /\ UNCHANGED <<cacheVars, evalVars, scoreVars, apiVars, callVars>>

\* run_evaluation: returns at once when the id is registered; otherwise it
\* creates the task, registers it and adds the done callback.
RunEvaluation(e) ==
    /\ UNCHANGED <<cacheVars, evalVars, scoreVars, apiVars, callVars>>
    /\ IF e \in running_evaluations
       THEN /\ running_evaluations' = running_evaluations
            /\ orchestration' = [orchestration EXCEPT ![e].refused = TRUE]
       ELSE /\ orchestration[e].created < MaxRuns
            /\ running_evaluations' = running_evaluations \cup {e}
            /\ orchestration' = [orchestration EXCEPT ![e] =
                   [@ EXCEPT !.tasks = @ + 1, !.created = @ + 1, !.refused = FALSE]]

\* The task of an orchestration ends; the loop schedules its done callbacks.
OrchestrationEnds(e, o) ==
    /\ orchestration[e].tasks > 0
    /\ orchestration' = [orchestration EXCEPT ![e] =
           [@ EXCEPT !.tasks = @ - 1, !.ended = @ + 1, !.outcome = o]]
    /\ UNCHANGED <<cacheVars, evalVars, scoreVars, apiVars, callVars, running_evaluations>>

\* cleanup_task, the done callback: pops the id whatever the outcome.
CleanupTask(e) ==
    /\ orchestration[e].ended > 0
    /\ running_evaluations' = running_evaluations \ {e}
    /\ orchestration' = [orchestration EXCEPT ![e].ended = @ - 1]
    /\ UNCHANGED <<cacheVars, evalVars, scoreVars, apiVars, callVars>>

RegistryInit ==
    /\ loaded = <<>>
    /\ conc = NoRequests
    /\ last = NoCall
    /\ limit = 1
    /\ modelIds = [b \in BatchIds |-> 0]
    /\ found = [b \in BatchIds |-> 0]
    /\ execution = [b \in BatchIds |-> NewExecution(0)]
    /\ opc = [b \in BatchIds |-> "none"]
    /\ sem = [b \in BatchIds |-> 0]
    /\ tpc = [b \in BatchIds |-> [i \in TaskIds |-> "none"]]
    /\ cancelled = [b \in BatchIds |-> [i \in TaskIds |-> FALSE]]
    /\ cnt = [b \in BatchIds |-> [i \in TaskIds |-> 0]]
    /\ result = [b \in BatchIds |-> [i \in TaskIds |-> NoResult]]
    /\ outcome = [b \in BatchIds |-> [i \in TaskIds |-> "none"]]
    /\ parsed_output = IntVal(1)
    /\ expected_output = IntVal(1)
    /\ config = [ignore_order |-> TRUE, float_tolerance |-> 1, ignore_extra_fields |-> TRUE]
    /\ scored = NotScored
    /\ request = NoRequest
    /\ response = NoResponse
    /\ calls = NoCalls
    /\ running_evaluations = {}
    /\ orchestration = NoOrchestrations

RegistryNext ==
    \/ \E e \in ExecutionIds : RunEvaluation(e)
    \/ \E e \in ExecutionIds, o \in TaskOutcomes : OrchestrationEnds(e, o)
    \/ \E e \in ExecutionIds : CleanupTask(e)

\* The registry on an event loop that runs the callbacks it scheduled.
RegistrySpec ==
    RegistryInit /\ [][RegistryNext]_vars /\ \A e \in ExecutionIds : WF_vars(CleanupTask(e))

(***************************************************************************)
(* Claims about the model residency cache, checked under CacheSpec.        *)
(***************************************************************************)
\* C1: in every state reachable by load, unload, startInference and
\* endInference calls, the number of resident models is at most the
\* configured capacity max_loaded_models.
C1_ResidentWithinCapacity == Len(loaded) <= MaxLoadedModels

\* The models a load call removed from the resident set.
EvictedByLast == Range(last.pre) \ Range(loaded)

\* C2: no load call evicts a resident entry whose active-request counter is
\* greater than 0: every model a load call removed had counter 0 when the
\* call removed it.
C2_LoadEvictsOnlyIdle ==
    last.op = "load" => \A m \in EvictedByLast : last.preConc[m] = 0

\* C2 witness: a load evicted a model while the least recently used resident
\* model was busy and was passed over.
C2_Witness ==
    /\ last.op = "load"
    /\ EvictedByLast # {}
    /\ last.preConc[last.pre[1]] > 0

\* The last call was a load of a configured, non-resident model made while the
\* cache was full and every resident model had an active request.
LoadAtFullBusyCache ==
    /\ last.op = "load"
    /\ last.m \in Configured
    /\ last.m \notin Range(last.pre)
    /\ Len(last.pre) >= MaxLoadedModels
    /\ \A x \in Range(last.pre) : last.preConc[x] > 0

\* C3: a load of a configured, non-resident model while the resident count is
\* >= C and every resident entry is busy returns a failure, does not insert
\* the model and leaves the resident set as it was.
C3_LoadFailsWhenAllBusy ==
    LoadAtFullBusyCache => (~last.ok /\ last.m \notin Range(loaded) /\ loaded = last.pre)

\* The last call was a load of a configured, non-resident model made while the
\* resident count was >= C and at least one resident model was idle.
LoadAtFullCacheWithIdle ==
    /\ last.op = "load"
    /\ last.m \in Configured
    /\ last.m \notin Range(last.pre)
    /\ Len(last.pre) >= MaxLoadedModels
    /\ \E x \in Range(last.pre) : last.preConc[x] = 0

\* The idle models before the last call, least recently used first.
IdleBefore == SelectSeq(last.pre, LAMBDA x : last.preConc[x] = 0)

\* The resident list of before the last call without the models it removed.
Survivors == SelectSeq(last.pre, LAMBDA x : x \in Range(loaded) /\ x # last.m)

\* Recency: a successful load (of a resident model or not) and a successful
\* startInference leave their model most recently used; no call reorders the
\* other resident models.
RecencyKept ==
    IF last.op \in {"load", "start"} /\ last.ok
    THEN loaded = Append(Survivors, last.m)
    ELSE loaded = SelectSeq(last.pre, LAMBDA x : x \in Range(loaded))

\* C11: a load of a non-resident model at resident count >= C with an
\* idle entry evicts one entry, the least recently used of the idle ones, and
\* recency is refreshed by a load of a resident model and by a successful
\* startInference.
C11_EvictsTheLruIdle ==
    /\ RecencyKept
    /\ LoadAtFullCacheWithIdle => EvictedByLast = {IdleBefore[1]}

\* The last call was a load that reached the Ollama calls (a configured model
\* that was not resident) and returned a failure: show, pull or the smoke-test
\* generation failed.
LoadFailedAtOllama ==
    /\ last.op = "load"
    /\ ~last.ok
    /\ last.m \in Configured
    /\ last.m \notin Range(last.pre)

\* C12: a load that fails at the fetch step or at the smoke test returns a
\* failure and leaves the cache as it was before the call: the same resident
\* models in the same recency order, nothing evicted to make room.
C12_FailedLoadKeepsCache == LoadFailedAtOllama => loaded = last.pre

\* The last call was a load of a model that was resident.
LoadOfResident == last.op = "load" /\ last.m \in Range(last.pre)

\* C13: a load of an already-resident model returns success, evicts nothing,
\* leaves the resident set and every active-request counter unchanged and
\* moves the model to the most-recently-used position, the other models
\* keeping their order.
C13_LoadOfResidentOnlyTouches ==
    LoadOfResident =>
        /\ last.ok
        /\ Range(loaded) = Range(last.pre)
        /\ conc = last.preConc
        /\ loaded = Append(SelectSeq(last.pre, LAMBDA x : x # last.m), last.m)

\* C13 witness: the load touched a resident model that was not the most
\* recently used one, while a model had an active request.
C13_Witness ==
    /\ LoadOfResident
    /\ last.pre[Len(last.pre)] # last.m
    /\ \E x \in Range(last.pre) : last.preConc[x] > 0

\* C14: unload returns a failure and leaves the cache unchanged when the
\* model is not resident or has an active request; otherwise it succeeds and
\* removes exactly that model, every other entry keeping its recency position.
C14_UnloadContract ==
    last.op = "unload" =>
        /\ conc = last.preConc
        /\ IF last.m \notin Range(last.pre) \/ last.preConc[last.m] > 0
           THEN ~last.ok /\ loaded = last.pre
           ELSE /\ last.ok
                /\ last.m \notin Range(loaded)
                /\ loaded = SelectSeq(last.pre, LAMBDA x : x # last.m)

\* C14 witness: an unload removed the least recently used of several resident
\* models.
C14_Witness ==
    /\ last.op = "unload"
    /\ last.ok
    /\ Len(last.pre) >= 2
    /\ last.pre[1] = last.m

\* C15: no model's active-request counter exceeds its per-model concurrency
\* limit (max_concurrent, 1 when unconfigured). startInference returns false
\* and changes neither counters nor recency order when the model is not
\* resident or its counter has reached the limit; otherwise it returns true,
\* adds exactly 1 to the counter and moves the model to the MRU position.
C15_StartInferenceContract ==
    /\ \A m \in ModelIds : conc[m] <= MaxConcurrentOf(m)
    /\ last.op = "start" =>
           IF last.m \notin Range(last.pre) \/ last.preConc[last.m] >= MaxConcurrentOf(last.m)
           THEN ~last.ok /\ conc = last.preConc /\ loaded = last.pre
           ELSE /\ last.ok
                /\ conc[last.m] = last.preConc[last.m] + 1
                /\ \A x \in ModelIds \ {last.m} : conc[x] = last.preConc[x]
                /\ loaded = Append(SelectSeq(last.pre, LAMBDA x : x # last.m), last.m)

\* C15 witness: startInference was refused for a resident model whose counter
\* stood at a limit greater than 1.
C15_Witness ==
    /\ last.op = "start"
    /\ ~last.ok
    /\ last.m \in Range(last.pre)
    /\ last.preConc[last.m] >= 2

\* C16: after any sequence of startInference and endInference calls, matched
\* or not, every active-request counter is >= 0: endInference takes 1 from a
\* positive counter and leaves a counter of 0 at 0, and touches nothing else.
C16_CounterFlooredAtZero ==
    /\ \A m \in ModelIds : conc[m] >= 0
    /\ last.op = "end" =>
           /\ conc[last.m] = IF last.preConc[last.m] > 0 THEN last.preConc[last.m] - 1 ELSE 0
           /\ \A x \in ModelIds \ {last.m} : conc[x] = last.preConc[x]
           /\ loaded = last.pre

\* C16 witness: endInference was called for a resident model with no request
\* in flight.
C16_Witness ==
    /\ last.op = "end"
    /\ last.m \in Range(last.pre)
    /\ last.preConc[last.m] = 0

(***************************************************************************)
(* Claims about the evaluation orchestrator, checked under EvalSpec.       *)
(***************************************************************************)
Finalized(b) == opc[b] = "done"

\* The batch deadline fired: it cancelled at least one task.
DeadlineFired(b) == \E i \in TaskIds : cancelled[b][i]

\* C4: a batch finalized after all its tasks ended (the deadline did not fire)
\* is completed if and only if successful_evaluations > 0; with no successful
\* task, also when every task failed so that progress = total, it is failed
\* with the message "All evaluations failed".
C4_CompletedIffSuccess ==
    \A b \in BatchIds : (Finalized(b) /\ ~DeadlineFired(b)) =>
        /\ (execution[b].status = "completed") <=> (execution[b].successful_evaluations > 0)
        /\ execution[b].successful_evaluations = 0 =>
               /\ execution[b].status = "failed"
               /\ execution[b].error_message = "All evaluations failed"

\* C5: when the batch deadline fired before every task was terminal, the final
\* status is failed and the error message is the timed-out message, however
\* many tasks had completed before.
C5_DeadlineMeansFailed ==
    \A b \in BatchIds : (Finalized(b) /\ DeadlineFired(b)) =>
        /\ execution[b].status = "failed"
        /\ execution[b].error_message = "Evaluation timed out"

StatusMoves ==
    {<<"pending", "running">>, <<"running", "completed">>, <<"running", "failed">>}

\* C6: the status of a batch only moves pending -> running -> completed or
\* failed; once it is completed or failed no later step changes it.
C6_StatusTransitions ==
    [][\A b \in BatchIds :
          execution'[b].status # execution[b].status =>
              <<execution[b].status, execution'[b].status>> \in StatusMoves]_vars

\* The tasks of a batch inside "async with semaphore".
Holders(b) == {i \in TaskIds : tpc[b][i] \notin {"none", "acquire", "done"}}

RECURSIVE HoldersUpTo(_)
HoldersUpTo(n) == IF n = 0 THEN 0 ELSE Cardinality(Holders(n)) + HoldersUpTo(n - 1)

\* C7: the tasks holding a limiter slot, summed over all the batches running
\* in the process, are at most max_concurrent_evaluations.
C7_GlobalLimit == HoldersUpTo(NumBatches) <= limit

\* C8: from the deadline on, a cancelled task writes no field of its record
\* and takes no step of a progress recomputation; a task that was terminal
\* keeps its record.
C8_CancelledTasksFrozen ==
    [][\A b \in BatchIds, i \in TaskIds :
          /\ cancelled'[b][i] => result'[b][i] = result[b][i]
          /\ cancelled[b][i] => tpc'[b][i] = tpc[b][i]
          /\ result[b][i].status \in Terminal => result'[b][i] = result[b][i]]_vars

\* C9: in every reachable state of a batch record, progress equals
\* successful_evaluations + failed_evaluations.
C9_ProgressIsSum ==
    \A b \in BatchIds :
        execution[b].progress =
            execution[b].successful_evaluations + execution[b].failed_evaluations

\* Every task of the batch ran to its end, none cut off by the deadline.
AllRecomputed(b) ==
    /\ opc[b] \in {"gather", "finalize", "done"}
    /\ found[b] >= 1
    /\ AllTasksDone(b)
    /\ ~DeadlineFired(b)

\* C10: once all tasks are terminal and all their recomputations finished,
\* progress is the number of terminal tasks, successful_evaluations the number
\* of completed ones and failed_evaluations the number of failed or timeout ones.
C10_NoLostUpdate ==
    \A b \in BatchIds : AllRecomputed(b) =>
        /\ execution[b].progress = CountStatus(b, Terminal)
        /\ execution[b].successful_evaluations = CountStatus(b, {"completed"})
        /\ execution[b].failed_evaluations = CountStatus(b, {"failed", "timeout"})

\* The status and error type the claim gives for each outcome of a provider call.
RecordFor(kind) ==
    IF kind \in {"ok", "ok_no_content"} THEN <<"completed", "none">>
    ELSE IF kind = "timeout" THEN <<"timeout", "timeout">>
    ELSE IF kind = "provider_error" THEN <<"failed", "provider_error">>
    ELSE <<"failed", "unknown_error">>

\* C17: a task's terminal record follows from the outcome of its provider
\* call: the per-task timeout gives status timeout with error type timeout, a
\* ProviderException failed with provider_error, any other exception failed
\* with unknown_error, a successful call completed with no error type; and no
\* record is terminal before the provider call ended.
C17_RecordFollowsOutcome ==
    \A b \in BatchIds, i \in TaskIds :
        /\ outcome[b][i] # "none" =>
               <<result[b][i].status, result[b][i].error_type>> = RecordFor(outcome[b][i])
        /\ result[b][i].status \in Terminal => outcome[b][i] # "none"

\* The provider call of some task of the batch timed out or raised, or its
\* scoring raised.
FailureIn(b) == \E i \in Tasks(b) : outcome[b][i] \notin {"none", "ok"}

\* The steps of one batch other than its deadline.
BatchNext(b) ==
    \/ ExecuteEvaluation(b)
    \/ \E i \in TaskIds : AcquireSlot(b, i) \/ DbExecute(b, i) \/ AssignCount(b, i)
    \/ \E i \in TaskIds, k \in ProviderOutcomes, s \in Scores : ProviderReturns(b, i, k, s)
    \/ TimedOut(b)
    \/ GatherReturns(b)
    \/ FinalizeExecution(b)

\* C18: task failures are isolated within a batch. Once a task has timed out
\* or raised, the batch still has a step to take until it is finalized, no
\* task was cancelled unless the deadline fired, and when the gather has
\* returned every task of the batch holds a terminal record.
C18_FailuresIsolated ==
    \A b \in BatchIds : FailureIn(b) =>
        /\ ~Finalized(b) => ENABLED BatchNext(b)
        /\ DeadlineFired(b) => opc[b] \in {"cancelling", "finalize", "done"}
        /\ (opc[b] \in {"finalize", "done"} /\ ~DeadlineFired(b)) =>
               \A j \in Tasks(b) : result[b][j].status \in Terminal

\* C18 witness: a batch was finalized, without its deadline firing, in which
\* one provider call raised a ProviderException and a sibling completed.
C18_Witness ==
    \E b \in BatchIds, i, j \in TaskIds :
        /\ Finalized(b)
        /\ ~DeadlineFired(b)
        /\ outcome[b][i] = "provider_error"
        /\ result[b][j].status = "completed"

\* C19: a failure inside scoring never aborts the task or reaches the caller:
\* score returns a result with score 0.0, so every task whose provider call
\* returned a response ends completed with a score on its record.
C19_ScoringNeverFailsTask ==
    \A b \in BatchIds, i \in TaskIds :
        outcome[b][i] \in {"ok", "ok_no_content"} =>
            /\ result[b][i].status = "completed"
            /\ result[b][i].score \in Scores

C22_ProgressWithinTotal ==
    \A b \in BatchIds :
        /\ execution[b].total_evaluations = modelIds[b]
        /\ execution[b].progress <= execution[b].total_evaluations

\* A batch of several targets whose progress reached its total.
C22_Witness ==
    \E b \in BatchIds :
        /\ modelIds[b] = MaxTargets
        /\ execution[b].progress = execution[b].total_evaluations

(***************************************************************************)
(* Termination, checked under EvalFairSpec.                                *)
(***************************************************************************)
\* C20: every submitted batch eventually reaches a terminal status, completed
\* or failed, and keeps it: no batch stays pending or running forever. The
\* submitter holds the batch handle from the start, before any task exists.
C20_EveryBatchEnds ==
    \A b \in BatchIds :
        (modelIds[b] > 0) ~> [](Finalized(b) /\ execution[b].status \in {"completed", "failed"})

\* C20 witness: a batch some of whose target models are missing from the
\* store, and whose deadline fired, was finalized.
C20_Witness ==
    \E b \in BatchIds :
        /\ Finalized(b)
        /\ DeadlineFired(b)
        /\ found[b] < modelIds[b]
        /\ execution[b].status \in {"completed", "failed"}

(***************************************************************************)
(* The scorer, checked under ScoreSpec.                                    *)
(***************************************************************************)
Compared == scored.op = "compare"

\* C23: compare(V, V) is 1.0 for every structured value V, for every tolerance
\* >= 0 and for both settings of ignore_array_order and ignore_extra_fields.
C23_Reflexive ==
    (Compared /\ parsed_output = expected_output) => scored.score = One

\* A nested value compared with itself under tolerance 0, in order and with
\* extra fields refused.
C23_Witness ==
    /\ Compared
    /\ parsed_output = ScenarioA_expected
    /\ expected_output = ScenarioA_expected
    /\ config = [ignore_order |-> FALSE, float_tolerance |-> 0, ignore_extra_fields |-> FALSE]
    /\ scored.score = One

\* q is p in another order: the same elements, each as often.
IsPermutation(p, q) ==
    /\ Len(p) = Len(q)
    /\ \E f \in [1..Len(p) -> 1..Len(p)] :
           /\ \A i, j \in 1..Len(p) : f[i] = f[j] => i = j
           /\ \A i \in 1..Len(p) : p[i] = q[f[i]]

\* C24: with ignore_array_order, an actual sequence that is a permutation of
\* the expected sequence scores 1.0, whatever the type of the elements.
C24_PermutationScoresOne ==
    (/\ Compared
     /\ config.ignore_order
     /\ parsed_output.t = "list"
     /\ expected_output.t = "list"
     /\ IsPermutation(parsed_output.v, expected_output.v)) => scored.score = One

\* C25: every score the scorer returns lies in [0, 1].
C25_ScoreInRange ==
    scored # NotScored => (0 <= scored.score /\ scored.score <= One)

\* A comparison and a structured match that gave partial credit.
C25_Witness ==
    /\ scored.op \in {"compare", "structured_match"}
    /\ 0 < scored.score
    /\ scored.score < One

DictsCompared ==
    /\ Compared
    /\ parsed_output.t = "dict"
    /\ expected_output.t = "dict"
    /\ DOMAIN expected_output.v # {}
    /\ (config.ignore_extra_fields \/ DOMAIN parsed_output.v = DOMAIN expected_output.v)

\* The score of the value under key k, 0 when actual has no such key.
KeyScore(k) ==
    IF k \in DOMAIN parsed_output.v
    THEN CompareStructures(parsed_output.v[k], expected_output.v[k], config)
    ELSE 0

RECURSIVE KeyScoreSum(_)
KeyScoreSum(K) ==
    IF K = {} THEN 0
    ELSE LET k == CHOOSE x \in K : TRUE IN KeyScore(k) + KeyScoreSum(K \ {k})

\* actual without the keys that expected does not have.
WithoutExtraFields ==
    DictVal([k \in DOMAIN parsed_output.v \cap DOMAIN expected_output.v |-> parsed_output.v[k]])

\* C26: for a non-empty expected mapping (the key-set check passed) the score
\* is the sum of the per-key scores over the expected keys divided by the
\* number of expected keys: a missing key adds 0 and the denominator stays;
\* keys that only actual has change nothing.
C26_DictScoreOverExpectedKeys ==
    DictsCompared =>
        /\ scored.score * Cardinality(DOMAIN expected_output.v) = KeyScoreSum(DOMAIN expected_output.v)
        /\ config.ignore_extra_fields =>
               scored.score = CompareStructures(WithoutExtraFields, expected_output, config)

\* Two expected keys, one of them missing from actual, the other matching,
\* and actual with a key of its own: half the credit.
C26_Witness ==
    /\ DictsCompared
    /\ Cardinality(DOMAIN expected_output.v) = 2
    /\ \E k \in DOMAIN expected_output.v : k \notin DOMAIN parsed_output.v
    /\ 2 * scored.score = One

C26_ExtraFieldWitness ==
    /\ DictsCompared
    /\ \E k \in DOMAIN parsed_output.v : k \notin DOMAIN expected_output.v
    /\ scored.score = One

ListsCompared ==
    /\ Compared
    /\ parsed_output.t = "list"
    /\ expected_output.t = "list"

\* C27: sequences of different length score 0.0 under both order settings, no
\* partial credit (expected [1,2], actual [1,2,3]); an empty expected sequence
\* against an empty actual sequence scores 1.0.
C27_LengthMismatchScoresZero ==
    ListsCompared =>
        /\ Len(parsed_output.v) # Len(expected_output.v) => scored.score = 0
        /\ (Len(parsed_output.v) = 0 /\ Len(expected_output.v) = 0) => scored.score = One

\* Scenario D was scored.
C27_Witness ==
    /\ ListsCompared
    /\ expected_output = ScenarioD_expected
    /\ parsed_output = ScenarioD_actual
    /\ scored.score = 0

C28_ThresholdWitness ==
    /\ scored.op = "structured_match"
    /\ 100 * scored.score = 95 * One
    /\ scored.is_correct

(***************************************************************************)
(* The API of the execution service, checked under ApiSpec.                *)
(***************************************************************************)
Unauthenticated(r) == r.endpoint # "none" /\ r.cred # "right"

\* C29: every /v1 endpoint answers a request without an API key or with a
\* wrong one with 401, and such a request performs no operation on the
\* residency cache or the inference service: the cache state is unchanged.
C29_UnauthenticatedGets401 ==
    /\ [](Unauthenticated(response) => response.status = 401)
    /\ [][(response' # response /\ Unauthenticated(response'))
              => UNCHANGED <<loaded, conc, last, request>>]_vars

\* The load endpoint answered a request that carried the key.
LoadAnswered == response' # response /\ response'.endpoint = "load" /\ response'.cred = "right"

\* C30: residency failures cross the load boundary as results: the load
\* endpoint answers 200 with success true and the model id exactly when
\* load_model returned success, and 400, not 500, when it returned a failure.
C30_LoadAnswerFollowsResult ==
    [][LoadAnswered =>
          /\ last'.op = "load"
          /\ last'.m = response'.m
          /\ (response'.status = 200) <=> last'.ok
          /\ last'.ok => response'.success
          /\ ~last'.ok => response'.status = 400]_vars

\* A load of a configured model failed at Ollama and was answered 400.
C30_Witness ==
    /\ response.endpoint = "load"
    /\ response.status = 400
    /\ last.op = "load"
    /\ last.m = response.m
    /\ last.m \in Configured
    /\ ~last.ok

\* A load that evicted a model was answered 200.
C30_SuccessWitness ==
    /\ response.endpoint = "load"
    /\ response.status = 200
    /\ response.success
    /\ last.op = "load"
    /\ last.m = response.m
    /\ Len(last.pre) = MaxLoadedModels

(***************************************************************************)
(* Completion, eviction and record-stability claims                        *)
(***************************************************************************)

\* C32: a batch whose deadline did not fire ends with status completed only
\* if progress = total_evaluations: a batch with a target model that produced
\* no task does not end completed.
C32_CompletedOnlyWhenAllCounted ==
    \A b \in BatchIds :
        (Finalized(b) /\ ~DeadlineFired(b) /\ execution[b].status = "completed")
            => execution[b].progress = execution[b].total_evaluations

\* The unused actual element with the highest pairwise score against item, the
\* lowest index on ties.
HighestUnused(actual, item, cfg, unused) ==
    CHOOSE i \in unused :
        \A j \in unused :
            LET si == CompareStructures(actual.v[i], item, cfg)
                sj == CompareStructures(actual.v[j], item, cfg)
            IN  sj < si \/ (sj = si /\ i <= j)

\* The greedy assignment from expected element k on: every expected element
\* consumes the element HighestUnused picks for it.
RECURSIVE GreedyAssignment(_, _, _, _, _)
GreedyAssignment(actual, expected, cfg, k, unused) ==
    IF k > Len(expected.v) THEN 0
    ELSE LET i == HighestUnused(actual, expected.v[k], cfg, unused)
         IN  CompareStructures(actual.v[i], expected.v[k], cfg)
                 + GreedyAssignment(actual, expected, cfg, k + 1, unused \ {i})

\* C33: with ignore_array_order and equal lengths, the list score is the
\* greedy assignment: expected elements in order, each matched to the unused
\* actual element with the highest pairwise score (lowest index on ties) and
\* consuming it; the score is the sum of the matched scores divided by the
\* length.
C33_GreedyAssignment ==
    (/\ ListsCompared
     /\ config.ignore_order
     /\ Len(parsed_output.v) = Len(expected_output.v)
     /\ Len(expected_output.v) > 0)
        => scored.score =
               GreedyAssignment(parsed_output, expected_output, config, 1,
                                1..Len(parsed_output.v)) \div Len(expected_output.v)

\* C34: a single load call for a non-resident model removes at most one
\* resident entry: the resident set after the call holds every model that was
\* resident before it except at most one.
C34_LoadRemovesAtMostOne ==
    (last.op = "load" /\ last.m \notin Range(last.pre))
        => Cardinality(EvictedByLast) <= 1

\* C35: a task record is terminal once written: after its status is
\* completed, failed or timeout, no step (the rest of the finally block, a
\* progress recomputation, the deadline, the finalization) changes its status,
\* score or error type.
C35_TerminalRecordKept ==
    [][\A b \in BatchIds, i \in TaskIds :
          result[b][i].status \in Terminal =>
              /\ result'[b][i].status = result[b][i].status
              /\ result'[b][i].score = result[b][i].score
              /\ result'[b][i].error_type = result[b][i].error_type]_vars

\* A batch was finalized after its deadline cancelled a task that had written
\* a completed record with a score and was still in its finally block.
C35_Witness ==
    \E b \in BatchIds, i \in TaskIds :
        /\ Finalized(b)
        /\ cancelled[b][i]
        /\ result[b][i].status = "completed"
        /\ result[b][i].score \in Scores

\* C37: a model whose active-request counter is > 0 is resident: no load,
\* unload, startInference or endInference removes an entry while requests on
\* it are in flight, and startInference never counts a request for a model
\* that is not resident.
C37_BusyModelsAreResident ==
    \A m \in ModelIds : conc[m] > 0 => m \in Range(loaded)

\* An unload of a busy model was refused at a full cache that also holds an
\* idle model.
C37_Witness ==
    /\ last.op = "unload"
    /\ ~last.ok
    /\ conc[last.m] > 0
    /\ last.m \in Range(loaded)
    /\ Len(loaded) >= MaxLoadedModels
    /\ \E x \in Range(loaded) : conc[x] = 0

(***************************************************************************)
(* The per-batch limiter, checked under EvalBatchFairSpec.                 *)
(***************************************************************************)
\* The orchestrator on an event loop that runs every step of a batch that is
\* ready, while the batch deadline may fire or not.
EvalBatchFairSpec ==
    EvalInit /\ [][EvalNext]_vars /\ \A b \in BatchIds : WF_vars(BatchNext(b))

\* The task waits in "async with semaphore".
Waiting(b, i) == tpc[b][i] = "acquire"

\* The task entered "async with semaphore": it created its record.
Acquired(b, i) == result[b][i].status # "none"

\* The tasks of a batch between acquiring a slot and the end of their progress
\* recomputation are at most max_concurrent_evaluations.
SlotsWithinLimit == \A b \in BatchIds : Cardinality(Holders(b)) <= limit

\* Every slot of a started batch is free or held by a task that has not ended:
\* a task that ended, on whatever path, gave its slot back.
SlotsGivenBack ==
    \A b \in BatchIds :
        opc[b] \notin {"none", "created"} => sem[b] + Cardinality(Holders(b)) = limit

\* C39 as stated: within a batch at most max_concurrent_evaluations tasks hold
\* a slot, every task releases its slot on every exit path, and a waiting task
\* eventually acquires a slot.
C39_WaitingTaskAcquires ==
    /\ [](SlotsWithinLimit /\ SlotsGivenBack)
    /\ \A b \in BatchIds, i \in TaskIds : Waiting(b, i) ~> Acquired(b, i)

\* C39, amended: within a batch at most max_concurrent_evaluations tasks hold
\* a slot, every task releases its slot on every exit path, and a waiting task
\* eventually acquires a slot unless the batch deadline cancels it first.
C39_WaitingTaskAcquiresOrIsCancelled ==
    /\ [](SlotsWithinLimit /\ SlotsGivenBack)
    /\ \A b \in BatchIds, i \in TaskIds :
           Waiting(b, i) ~> (Acquired(b, i) \/ cancelled[b][i])

\* With one slot, the second task of a batch acquired it after the first task
\* failed and ended; no deadline fired.
C39_Witness ==
    \E b \in BatchIds :
        /\ limit = 1
        /\ found[b] = 2
        /\ tpc[b][1] = "done"
        /\ result[b][1].status \in {"failed", "timeout"}
        /\ tpc[b][2] = "generate"
        /\ ~DeadlineFired(b)

(***************************************************************************)
(* The registry of running evaluations, checked under RegistrySpec.        *)
(***************************************************************************)
\* The id has an orchestration in progress: a task that runs, or one that
\* ended and whose done callback the loop has not run yet.
InProgress(e) == orchestration[e].tasks + orchestration[e].ended > 0

\* C38: run_evaluation(id) called while an orchestration for id is running is
\* a no-op, so there is at most one orchestration task per id at a time; the
\* registry entry is removed when the orchestration finishes, with any
\* outcome, so the registry holds exactly the ids of orchestrations in
\* progress.
C38_RegistryTracksOrchestrations ==
    /\ [](\A e \in ExecutionIds :
             /\ orchestration[e].tasks + orchestration[e].ended <= 1
             /\ (e \in running_evaluations) <=> InProgress(e))
    /\ \A e \in ExecutionIds :
           (orchestration[e].ended > 0) ~> (e \notin running_evaluations)

\* A second orchestration of an id runs after the first one raised and was
\* removed, and a run_evaluation call made meanwhile returned at once.
C38_Witness ==
    \E e \in ExecutionIds :
        /\ orchestration[e].created = 2
        /\ orchestration[e].outcome = "raised"
        /\ orchestration[e].tasks = 1
        /\ orchestration[e].ended = 0
        /\ orchestration[e].refused
        /\ e \in running_evaluations

(***************************************************************************)
(* The execution service under concurrent requests, checked under ConcSpec.*)
(***************************************************************************)
\* C31: the cache operations are mutually exclusive: when load calls for
\* distinct non-resident models, or a load and a startInference or unload, run
\* concurrently and interleave where load waits, the resident count never
\* exceeds max_loaded_models and no entry with active requests is removed.
C31_ConcurrentLoadsKeepCapacity ==
    /\ Len(loaded) <= MaxLoadedModels
    /\ \A m \in ModelIds : conc[m] > 0 => m \in Range(loaded)

\* The requests that are between a successful start_inference for m and the
\* end_inference of their finally block.
InGenerate(m) == {c \in CallIds : calls[c].pc = "generate" /\ calls[c].m = m}

\* The request of handler c returns in this step without having passed
\* start_inference: its load failed or start_inference returned False.
ReturnsUnstarted(c) ==
    /\ calls[c].op # "none"
    /\ calls[c].pc # "generate"
    /\ calls'[c].op = "none"

\* C36: in generate every successful startInference(m) is followed by exactly
\* one endInference(m) on every exit path (success, timeout, model not found,
\* any other error), and endInference is not called for a request whose
\* startInference returned false or whose load failed; so every counter is the
\* number of requests in flight on its model, 0 when there is none.
C36_StartAndEndArePaired ==
    /\ [](\A m \in ModelIds : conc[m] = Cardinality(InGenerate(m)))
    /\ [][\A c \in CallIds : ReturnsUnstarted(c) => conc' = conc]_vars

\* One request ended on an error path; another request is in flight on a
\* model that admits two requests, and it is the only one counted.
C36_Witness ==
    \E c, d \in CallIds :
        /\ calls[c].pc \in {"timeout", "not_found", "error"}
        /\ calls[d].pc = "generate"
        /\ MaxConcurrentOf(calls[d].m) > 1
        /\ conc[calls[d].m] = 1

====
